---- MODULE Spec2Model ----
(***************************************************************************)
(* Model of the MobSF MCP gateway (src/server.ts): the bearer-credential   *)
(* middleware, the session registry behind /mcp, graceful shutdown, and    *)
(* the inline-artifact scan pipeline with its temporary file.              *)
(*                                                                         *)
(* Strings are sequences of one-character strings, so that startsWith and  *)
(* slice are computed as the code computes them.                           *)
(***************************************************************************)
EXTENDS Integers, Sequences, FiniteSets, TLC

\* ------------------------------------------------------------------------
\* Bounds of the model
\* ------------------------------------------------------------------------
\* longest token body drawn for keys and Authorization header values
MaxTokenLen == 2
\* session identifiers randomUUID can still mint (transports constructed)
MaxSessions == 2
\* termination signals delivered (shutdown runs started)
MaxSignals == 2
\* concurrent scanFileBase64 invocations
MaxCalls == 2
\* tool calls other than valid scanFileBase64 calls dispatched on the session
MaxOps == 1

\* ------------------------------------------------------------------------
\* Strings
\* ------------------------------------------------------------------------
\* the literal "Bearer " of server.ts:602
Bearer == <<"B", "e", "a", "r", "e", "r", " ">>

\* String.prototype.startsWith
StartsWith(s, p) == Len(s) >= Len(p) /\ SubSeq(s, 1, Len(p)) = p

\* String.prototype.slice(n)
Slice(s, n) == SubSeq(s, n + 1, Len(s))

Digit(d) ==
  CASE d = 0 -> "0" [] d = 1 -> "1" [] d = 2 -> "2" [] d = 3 -> "3" [] d = 4 -> "4"
    [] d = 5 -> "5" [] d = 6 -> "6" [] d = 7 -> "7" [] d = 8 -> "8" [] d = 9 -> "9"

\* String(n) of a natural number
RECURSIVE NumberToString(_)
NumberToString(n) == IF n < 10 THEN <<Digit(n)>> ELSE NumberToString(n \div 10) \o <<Digit(n % 10)>>

TokenChars == {"x", "y"}

RECURSIVE SeqsUpTo(_)
SeqsUpTo(n) ==
  IF n = 0 THEN {<<>>}
  ELSE LET prev == SeqsUpTo(n - 1)
       IN  prev \cup {Append(s, c) : s \in {q \in prev : Len(q) = n - 1}, c \in TokenChars}

TokenBodies == SeqsUpTo(MaxTokenLen)

\* values MCP_API_KEY can take: unset/empty, plain tokens, and tokens that
\* themselves begin with "Bearer "
Keys == TokenBodies \cup {Bearer \o b : b \in TokenBodies}

\* the request carries no Authorization header (req.headers.authorization undefined)
NoHeader == <<"undefined">>

\* Authorization header values: bodies behind zero, one or two "Bearer " prefixes
HeaderValues ==
  {p1 \o p2 \o b : p1 \in {<<>>, Bearer}, p2 \in {<<>>, Bearer}, b \in TokenBodies}

Headers == {NoHeader} \cup HeaderValues

\* ------------------------------------------------------------------------
\* authenticateRequest (server.ts:580-624)
\* ------------------------------------------------------------------------
MsgMissing == "Unauthorized: Missing Authorization header"
MsgInvalid == "Forbidden: Invalid API key"

\* the middleware called next(): no response written by it
AuthNext == [next |-> TRUE, status |-> 0, code |-> 0, message |-> ""]

AuthReject(status, code, message) ==
  [next |-> FALSE, status |-> status, code |-> code, message |-> message]

\* an exception escaping the middleware: Express answers 500
AuthThrow == [next |-> FALSE, status |-> 500, code |-> 0, message |-> "RangeError"]

\* crypto.timingSafeEqual: throws unless both buffers have the same length
TimingSafeEqual(a, b) ==
  IF Len(a) # Len(b) THEN "throw" ELSE IF a = b THEN "equal" ELSE "differ"

\* server.ts:602-604
ExtractToken(authHeader) ==
  IF StartsWith(authHeader, Bearer) THEN Slice(authHeader, 7) ELSE authHeader

\* server.ts:610 without its length guard
CompareNoLengthGuard(token, key) == TimingSafeEqual(token, key)

\* server.ts:610, the condition of the if: "differ" when the token is refused
CompareToken(token, key) ==
  IF Len(token) # Len(key) THEN "differ" ELSE TimingSafeEqual(token, key)

authenticateRequest(key, authHeader) ==
  IF key = <<>> THEN AuthNext
  ELSE IF authHeader = NoHeader \/ authHeader = <<>>
       THEN AuthReject(401, -32001, MsgMissing)
  ELSE LET m == CompareToken(ExtractToken(authHeader), key)
       IN  IF m = "throw" THEN AuthThrow
           ELSE IF m = "differ" THEN AuthReject(403, -32002, MsgInvalid)
           ELSE AuthNext

\* ------------------------------------------------------------------------
\* Requests to /mcp and /mcp/
\* ------------------------------------------------------------------------
Methods == {"POST", "GET", "DELETE"}
Paths == {"/mcp", "/mcp/"}

\* the request carries no mcp-session-id header
NoSid == 0

\* identifiers randomUUID (server.ts:647) can return
Uuids == 1 .. MaxSessions

\* identifiers a client can put in the mcp-session-id header: every one the
\* server can mint, and one it never mints
ClientSids == 1 .. (MaxSessions + 1)

\* keys and header values of the gateway runs
GwKey == <<"x">>
GwKeys == {<<>>, GwKey}
GwHeaders == {NoHeader, GwKey, Bearer \o GwKey, <<"y">>}

MsgGetNeedsSession ==
  "Bad Request: GET requests require mcp-session-id header. Send POST with initialize request first."
MsgNoSession == "Bad Request: No valid session. Send an initialize request first."

\* what transport.close() can do to its caller: resolve, reject, or never settle
CloseOutcomes == {"ok", "throw", "hang"}

\* ------------------------------------------------------------------------
\* State
\* ------------------------------------------------------------------------
VARIABLES
  apiKey,          \* MCP_API_KEY (server.ts:40), read once at startup
  authHdr,         \* Authorization header of the last request checked alone
  authOut,         \* what authenticateRequest did with it
  authRejMsgs,     \* messages of the rejections of header values so far
  transports,      \* the Map of server.ts:575: session id -> [t, stamp]
  tr,              \* every StreamableHTTPServerTransport constructed, by handle
  serverTransport, \* the transport the shared Server (server.ts:456) is connected to, 0: none
  minted,          \* results of randomUUID so far
  stamps,          \* insertions into the Map so far (its iteration order)
  last,            \* the last request mcp routing finished with, and its answer
  runs,            \* the shutdown runs started, one per signal
  timers,          \* force-exit timers armed (server.ts:767)
  listenerClosing, \* httpServer.close was called (server.ts:761)
  proc,            \* "running", "exit0" or "exit1"
  calls,           \* the scanFileBase64 invocations, by slot
  files,           \* the temporary files present in UPLOAD_DIR, by their random token
  hostHome,        \* process.env.HOST_HOME (server.ts:116), <<>> when it is not set
  mounted,         \* the directory /host_home exists (server.ts:119)
  disk,            \* the paths at which a file exists, outside UPLOAD_DIR
  op               \* the tool call dispatched last, and how far it has come

authVars == <<authHdr, authOut, authRejMsgs>>
gwVars == <<transports, tr, serverTransport, minted, stamps, last>>
sdVars == <<runs, timers, listenerClosing, proc>>
scanVars == <<calls, files>>
toolVars == <<hostHome, mounted, disk, op>>
vars == <<apiKey, authVars, gwVars, sdVars, scanVars, toolVars>>

\* nothing checked yet
AuthIdle == [next |-> FALSE, status |-> 0, code |-> 0, message |-> ""]

NoRequest ==
  [method |-> "", sid |-> NoSid, init |-> FALSE, known |-> FALSE, cred |-> FALSE,
   out |-> "none", status |-> 0, code |-> 0, message |-> "", t |-> 0]

GwIdle ==
  /\ transports = <<>>
  /\ tr = <<>>
  /\ serverTransport = 0
  /\ minted = {}
  /\ stamps = 0
  /\ last = NoRequest

SdIdle ==
  /\ runs = <<>>
  /\ timers = 0
  /\ listenerClosing = FALSE
  /\ proc = "running"

\* a slot no invocation has used yet
IdleCall ==
  [pc |-> "idle", filename |-> <<>>, token |-> 0, scanType |-> "null", staged |-> FALSE,
   result |-> "none", failedAt |-> "none", unlinks |-> 0, lastUnlink |-> "none",
   tempPath |-> <<>>, cause |-> "none", msg |-> [from |-> "none", timeout |-> 0],
   projection |-> {}]

ScanIdle ==
  /\ calls = [c \in 1 .. MaxCalls |-> IdleCall]
  /\ files = {}

\* no tool call dispatched yet
IdleOp ==
  [pc |-> "idle", name |-> "", hasArgs |-> FALSE, args |-> <<>>, sid |-> NoSid,
   resolved |-> <<>>, probes |-> {}, scanType |-> "null", sent |-> <<>>,
   handler |-> "none", isError |-> FALSE, kind |-> "none", operation |-> "",
   fault |-> "none", paths |-> <<>>, hasName |-> FALSE, file_name |-> <<>>,
   projection |-> {}, answers |-> <<>>, msg |-> [from |-> "none", timeout |-> 0],
   logs |-> <<>>, seq |-> 0]

ToolIdle ==
  /\ hostHome = <<>>
  /\ mounted = FALSE
  /\ disk = {}
  /\ op = IdleOp

\* ------------------------------------------------------------------------
\* The middleware alone, over every key and header value
\* ------------------------------------------------------------------------
InitAuth ==
  /\ apiKey \in Keys
  /\ authHdr = NoHeader
  /\ authOut = AuthIdle
  /\ authRejMsgs = {}
  /\ GwIdle
  /\ SdIdle
  /\ ScanIdle
  /\ ToolIdle

Authenticate(h) ==
  /\ authHdr' = h
  /\ authOut' = authenticateRequest(apiKey, h)
  /\ authRejMsgs' =
       IF h # NoHeader /\ ~authOut'.next
       THEN authRejMsgs \cup {authOut'.message} ELSE authRejMsgs
  /\ UNCHANGED <<apiKey, gwVars, sdVars, scanVars, toolVars>>

NextAuth == \E h \in Headers : Authenticate(h)

SpecAuth == InitAuth /\ [][NextAuth]_vars

\* ------------------------------------------------------------------------
\* The session registry behind /mcp (server.ts:633-699)
\* ------------------------------------------------------------------------
MapDelete(m, k) == [x \in (DOMAIN m) \ {k} |-> m[x]]

MapSet(m, k, v) == [x \in (DOMAIN m) \cup {k} |-> IF x = k THEN v ELSE m[x]]

\* what a client presenting the configured key sends (README: Authentication)
PresentsValidCredential(key, hdr) == hdr = key \/ hdr = Bearer \o key

\* only app.all("/mcp", ...) carries the middleware, the alias route does not
GuardedMcpOnly(path) == path = "/mcp"

\* server.ts:698-699: the routes whose chain starts with authenticateRequest
Guarded(path) == path \in {"/mcp", "/mcp/"}

\* the record of a request the routing finished with; known and cred are
\* taken when the request arrives
Answer(req, out, status, code, message, t) ==
  [method |-> req.method, sid |-> req.sid, init |-> req.init,
   known |-> req.sid \in DOMAIN transports,
   cred |-> PresentsValidCredential(apiKey, req.hdr),
   out |-> out, status |-> status, code |-> code, message |-> message, t |-> t]

\* transport.onclose as server.connect leaves it: the handler of
\* server.ts:656-659, then the Server's own (it forgets its transport)
OnClose(h) ==
  /\ transports' = MapDelete(transports, tr[h].gen)
  /\ serverTransport' = 0

\* transport.close() is called and ends as o: when it runs to its end it has
\* called onclose, when it throws or never settles it has not
Close(h, o) ==
  /\ tr' = [tr EXCEPT ![h].closes = @ + 1, ![h].closed = (@ \/ o = "ok")]
  /\ IF o = "ok" THEN OnClose(h) ELSE UNCHANGED <<transports, serverTransport>>

\* the request goes to the transport constructed last
ReuseSessionLatest(req) ==
  LET h == Len(tr) IN
  /\ last' = Answer(req, "forward", 200, 0, "", h)
  /\ IF req.method = "DELETE" THEN Close(h, "ok")
     ELSE UNCHANGED <<transports, serverTransport, tr>>
  /\ UNCHANGED <<minted, stamps>>

\* server.ts:639-643: the session is registered, the request goes to its
\* transport; a DELETE makes the transport close itself
ReuseSession(req) ==
  LET h == transports[req.sid].t IN
  /\ last' = Answer(req, "forward", 200, 0, "", h)
  /\ IF req.method = "DELETE" THEN Close(h, "ok")
     ELSE UNCHANGED <<transports, serverTransport, tr>>
  /\ UNCHANGED <<minted, stamps>>

\* server.ts:646-662: mint an identifier, construct the transport, connect the
\* shared Server to it; handleRequest is then awaited
CreateSession(req, u) ==
  /\ tr' = Append(tr, [gen |-> u, init |-> req.init, phase |-> "reading",
                       closed |-> FALSE, closes |-> 0, dropped |-> FALSE])
  /\ minted' = minted \cup {u}
  /\ serverTransport' = Len(tr) + 1
  /\ last' = Answer(req, "create", 0, 0, "", Len(tr) + 1)
  /\ UNCHANGED <<transports, stamps>>

\* server.ts:674-694
RejectNoSession(req) ==
  /\ last' = Answer(req, "reject", 400, -32000,
                    IF req.method = "GET" THEN MsgGetNeedsSession ELSE MsgNoSession, 0)
  /\ UNCHANGED <<transports, tr, serverTransport, minted, stamps>>

\* any POST the registry does not know opens a session
IsCreateAnySid(req) == req.method = "POST"

\* server.ts:646
IsCreate(req) == req.method = "POST" /\ req.sid = NoSid

\* server.ts:633-695, up to the first await
mcpHandler(req) ==
  IF req.sid # NoSid /\ req.sid \in DOMAIN transports
  THEN ReuseSession(req)
  ELSE IF IsCreate(req)
  THEN \E u \in Uuids \ minted : CreateSession(req, u)
  ELSE RejectNoSession(req)

\* one request to the endpoint: the middleware, then the handler up to its
\* first await
Request(req) ==
  /\ proc = "running"
  /\ LET auth == IF Guarded(req.path) THEN authenticateRequest(apiKey, req.hdr)
                 ELSE AuthNext IN
     IF auth.next
     THEN mcpHandler(req)
     ELSE /\ last' = Answer(req, "reject", auth.status, auth.code, auth.message, 0)
          /\ UNCHANGED <<transports, tr, serverTransport, minted, stamps>>
  /\ UNCHANGED <<apiKey, authVars, sdVars, scanVars, toolVars>>

\* server.ts:650-653, inside the awaited handleRequest: the transport read an
\* initialize request and calls onsessioninitialized; any other body is
\* answered without registering
CreateHandle(h) ==
  /\ proc = "running"
  /\ tr[h].phase = "reading"
  /\ tr' = [tr EXCEPT ![h].phase = "responding"]
  /\ IF tr[h].init
     THEN /\ transports' = MapSet(transports, tr[h].gen, [t |-> h, stamp |-> stamps + 1])
          /\ stamps' = stamps + 1
     ELSE UNCHANGED <<transports, stamps>>
  /\ UNCHANGED <<apiKey, authVars, serverTransport, minted, last, sdVars, scanVars, toolVars>>

\* server.ts:663-670: handleRequest settles; when it throws the catch removes
\* the entry of this request's identifier
CreateReturn(h, threw) ==
  /\ proc = "running"
  /\ tr[h].phase \in {"reading", "responding"}
  /\ threw \/ tr[h].phase = "responding"
  /\ tr' = [tr EXCEPT ![h].phase = "live",
                       ![h].dropped = threw /\ tr[h].gen \in DOMAIN transports]
  /\ transports' = IF threw THEN MapDelete(transports, tr[h].gen) ELSE transports
  /\ UNCHANGED <<apiKey, authVars, serverTransport, minted, stamps, last, sdVars, scanVars, toolVars>>

\* the requests a client can send
Req(m, path, hdr, sid, init) ==
  [method |-> m, path |-> path, hdr |-> hdr, sid |-> sid, init |-> init]

RequestsOver(paths, hdrs) ==
  {Req("POST", p, h, NoSid, i) : p \in paths, h \in hdrs, i \in BOOLEAN}
    \cup {Req(m, p, h, NoSid, FALSE) : m \in Methods \ {"POST"}, p \in paths, h \in hdrs}
    \cup {Req(m, p, h, s, FALSE) : m \in Methods, p \in paths, h \in hdrs, s \in ClientSids}

\* ------------------------------------------------------------------------
\* Graceful shutdown (server.ts:746-774)
\* ------------------------------------------------------------------------
\* the Map iterator: the entry inserted first among those after position `after`
NextEntry(after) ==
  LET later == {k \in DOMAIN transports : transports[k].stamp > after}
  IN  IF later = {} THEN NoSid
      ELSE CHOOSE k \in later : \A j \in later : transports[k].stamp <= transports[j].stamp

\* server.ts:750-770 from the iterator position `after` to the next await:
\* either close() is called on the next entry and the run waits for it to
\* settle, or the loop is over: clear the Map, close the listener, arm the timer
ShutdownStep(rs, r, after, o) ==
  LET k == NextEntry(after) IN
  IF k # NoSid
  THEN /\ runs' = [rs EXCEPT ![r].pc = "await", ![r].cur = transports[k].stamp,
                             ![r].settle = o]
       /\ Close(transports[k].t, o)
       /\ UNCHANGED <<timers, listenerClosing>>
  ELSE /\ o = "ok"
       /\ runs' = [rs EXCEPT ![r].pc = "done", ![r].cur = after, ![r].settle = "ok"]
       /\ transports' = <<>>
       /\ listenerClosing' = TRUE
       /\ timers' = timers + 1
       /\ UNCHANGED <<serverTransport, tr>>

\* reg: the transports registered when the signal arrived
NewRun ==
  [pc |-> "start", cur |-> 0, settle |-> "ok",
   reg |-> {transports[k].t : k \in DOMAIN transports}]

\* server.ts:773-774: SIGTERM or SIGINT starts a run of shutdown
Signal(o) ==
  /\ proc = "running"
  /\ Len(runs) < MaxSignals
  /\ ShutdownStep(Append(runs, NewRun), Len(runs) + 1, 0, o)
  /\ UNCHANGED <<apiKey, authVars, minted, stamps, last, proc, scanVars, toolVars>>

\* the catch of server.ts:754-756 left out: a rejected close() ends the run
\* before the Map is cleared
ResumeNoCatch(r, o) ==
  /\ proc = "running"
  /\ runs[r].pc = "await"
  /\ runs[r].settle # "hang"
  /\ IF runs[r].settle = "throw"
     THEN /\ o = "ok"
          /\ runs' = [runs EXCEPT ![r].pc = "done"]
          /\ UNCHANGED <<transports, serverTransport, tr, timers, listenerClosing>>
     ELSE ShutdownStep(runs, r, runs[r].cur, o)
  /\ UNCHANGED <<apiKey, authVars, minted, stamps, last, proc, scanVars, toolVars>>

\* server.ts:753-756: the awaited close() settled (a rejection is caught and
\* logged); the loop goes on
Resume(r, o) ==
  /\ proc = "running"
  /\ runs[r].pc = "await"
  /\ runs[r].settle # "hang"
  /\ ShutdownStep(runs, r, runs[r].cur, o)
  /\ UNCHANGED <<apiKey, authVars, minted, stamps, last, proc, scanVars, toolVars>>

\* server.ts:761-764: the listener finished closing
ListenerClosed ==
  /\ proc = "running"
  /\ listenerClosing
  /\ proc' = "exit0"
  /\ UNCHANGED <<apiKey, authVars, gwVars, runs, timers, listenerClosing, scanVars, toolVars>>

\* server.ts:767-770: ten seconds after it was armed
TimerFire ==
  /\ proc = "running"
  /\ timers > 0
  /\ proc' = "exit1"
  /\ UNCHANGED <<apiKey, authVars, gwVars, runs, timers, listenerClosing, scanVars, toolVars>>

\* ------------------------------------------------------------------------
\* The gateway: sessions and authentication
\* ------------------------------------------------------------------------
InitGateway ==
  /\ apiKey \in GwKeys
  /\ authHdr = NoHeader
  /\ authOut = AuthIdle
  /\ authRejMsgs = {}
  /\ GwIdle
  /\ SdIdle
  /\ ScanIdle
  /\ ToolIdle

NextGateway ==
  \/ \E req \in RequestsOver(Paths, GwHeaders) : Request(req)
  \/ \E h \in DOMAIN tr : CreateHandle(h)
  \/ \E h \in DOMAIN tr, threw \in BOOLEAN : CreateReturn(h, threw)

Spec == InitGateway /\ [][NextGateway]_vars

\* ------------------------------------------------------------------------
\* The gateway under termination signals, authentication off
\* ------------------------------------------------------------------------
InitShutdown ==
  /\ apiKey = <<>>
  /\ authHdr = NoHeader
  /\ authOut = AuthIdle
  /\ authRejMsgs = {}
  /\ GwIdle
  /\ SdIdle
  /\ ScanIdle
  /\ ToolIdle

\* the requests that touch the registry: a POST that opens a session, with an
\* initialize request or without, and the DELETE of a session
ShutdownRequests ==
  {Req("POST", "/mcp", NoHeader, NoSid, i) : i \in BOOLEAN}
    \cup {Req("DELETE", "/mcp", NoHeader, s, FALSE) : s \in Uuids}

NextShutdown ==
  \/ \E req \in ShutdownRequests : Request(req)
  \/ \E h \in DOMAIN tr : CreateHandle(h)
  \/ \E h \in DOMAIN tr, threw \in BOOLEAN : CreateReturn(h, threw)
  \/ \E o \in CloseOutcomes : Signal(o)
  \/ \E r \in DOMAIN runs, o \in CloseOutcomes : Resume(r, o)
  \/ ListenerClosed
  \/ TimerFire

SpecShutdown == InitShutdown /\ [][NextShutdown]_vars

\* the event loop runs a due timer, and resumes a run whose awaited close()
\* has settled, while the process lives; a close() that never settles and a
\* listener that never finishes closing are left to the environment
FairSpecShutdown ==
  /\ SpecShutdown
  /\ WF_vars(TimerFire)
  /\ \A r \in 1 .. MaxSignals :
       WF_vars(r \in DOMAIN runs /\ \E o \in CloseOutcomes : Resume(r, o))

\* ------------------------------------------------------------------------
\* scanFileBase64 and uploadAndScan (server.ts:203-292)
\* ------------------------------------------------------------------------
\* the last path segment, as path.extname and path.basename take it:
\* path.basename and path.extname skip the separators a path ends with
LastSegment(s) ==
  LET ends == {i \in 1 .. Len(s) : s[i] # "/"}
      e == IF ends = {} THEN 0 ELSE CHOOSE i \in ends : \A j \in ends : j <= i
      slashes == {i \in 1 .. e : s[i] = "/"}
      b == IF slashes = {} THEN 0 ELSE CHOOSE i \in slashes : \A j \in slashes : j <= i
  IN  SubSeq(s, b + 1, e)

\* path.extname: from the last dot of the last segment, "" when there is none
\* or when the segment begins with its only dot
ExtName(s) ==
  LET b == LastSegment(s)
      dots == {i \in 1 .. Len(b) : b[i] = "."}
  IN  IF dots = {} THEN <<>>
      ELSE LET d == CHOOSE i \in dots : \A j \in dots : j <= i
           IN  IF d = 1 THEN <<>> ELSE SubSeq(b, d, Len(b))

LowerChar(c) ==
  CASE c = "A" -> "a" [] c = "P" -> "p" [] c = "K" -> "k" [] c = "I" -> "i"
    [] OTHER -> c

\* String.prototype.toLowerCase
ToLowerCase(s) == [i \in 1 .. Len(s) |-> LowerChar(s[i])]

\* every name is taken for an Android package
ScanTypeAlwaysApk(name) == "apk"

\* server.ts:204-205
ScanTypeOf(name) ==
  LET ext == ToLowerCase(ExtName(name))
  IN  IF ext = <<".", "a", "p", "k">> THEN "apk"
      ELSE IF ext = <<".", "i", "p", "a">> THEN "ios"
      ELSE "null"

\* filenames the callers send: plain ones, one without a supported suffix, one
\* that is only a suffix, one with a parent segment (../a.apk) and one with a
\* space and a separator at its end (a .ipa/)
Filenames ==
  {<<"a", ".", "a", "p", "k">>, <<"a", ".", "I", "P", "A">>,
   <<"a", ".", "e", "x", "e">>, <<".", "a", "p", "k">>,
   <<".", ".", "/", "a", ".", "a", "p", "k">>,
   <<"a", " ", ".", "i", "p", "a", "/">>}

\* the characters of [a-zA-Z0-9._-]
SafeChars ==
  {"a", "b", "c", "d", "e", "f", "g", "h", "i", "j", "k", "l", "m", "n", "o", "p",
   "q", "r", "s", "t", "u", "v", "w", "x", "y", "z",
   "A", "B", "C", "D", "E", "F", "G", "H", "I", "J", "K", "L", "M", "N", "O", "P",
   "Q", "R", "S", "T", "U", "V", "W", "X", "Y", "Z",
   "0", "1", "2", "3", "4", "5", "6", "7", "8", "9", ".", "_", "-"}

\* the filename is used as it came
SanitizeNothing(filename) == filename

\* server.ts:218: path.basename(filename).replace(/[^a-zA-Z0-9._-]/g, '_')
Sanitize(filename) ==
  LET b == LastSegment(filename)
  IN  [i \in 1 .. Len(b) |-> IF b[i] \in SafeChars THEN b[i] ELSE "_"]

\* path.join(dir, name) for an absolute dir: the two are put together with a
\* separator and normalised, where empty and "." segments go and a ".."
\* segment takes the segment before it
PathJoin(dir, name) ==
  LET RECURSIVE Segments(_)
      Segments(p) ==
        IF \E i \in 1 .. Len(p) : p[i] = "/"
        THEN LET i == CHOOSE k \in 1 .. Len(p) :
                        p[k] = "/" /\ \A j \in 1 .. (k - 1) : p[j] # "/"
             IN  <<SubSeq(p, 1, i - 1)>> \o Segments(SubSeq(p, i + 1, Len(p)))
        ELSE <<p>>
      RECURSIVE Resolve(_, _)
      Resolve(segs, acc) ==
        IF segs = <<>> THEN acc
        ELSE LET h == Head(segs)
             IN  IF h = <<>> \/ h = <<".">> THEN Resolve(Tail(segs), acc)
                 ELSE IF h = <<".", ".">>
                 THEN Resolve(Tail(segs),
                              IF acc = <<>> THEN acc ELSE SubSeq(acc, 1, Len(acc) - 1))
                 ELSE Resolve(Tail(segs), Append(acc, h))
      RECURSIVE JoinSegments(_)
      JoinSegments(segs) ==
        IF segs = <<>> THEN <<>> ELSE <<"/">> \o Head(segs) \o JoinSegments(Tail(segs))
      resolved == Resolve(Segments(dir \o <<"/">> \o name), <<>>)
  IN  IF resolved = <<>> THEN <<"/">> ELSE JoinSegments(resolved)

\* server.ts:42: UPLOAD_DIR, here /tmp/mobsf-uploads
UploadDir ==
  <<"/", "t", "m", "p", "/", "m", "o", "b", "s", "f", "-", "u", "p", "l", "o", "a", "d", "s">>

\* server.ts:219: path.join(UPLOAD_DIR, `${randomUUID()}_${sanitizedFilename}`)
TempPath(token, filename) ==
  PathJoin(UploadDir, NumberToString(token) \o <<"_">> \o Sanitize(filename))

\* tokens randomUUID (server.ts:219) can return
Tokens == 1 .. MaxCalls

\* report_json answers: the stored file name, or none
Report(hasName, file_name) == [hasName |-> hasName, file_name |-> file_name]

Reports ==
  {Report(FALSE, <<>>),
   Report(TRUE, <<"a", ".", "a", "p", "k">>),
   Report(TRUE, <<"a", ".", "i", "p", "a">>),
   Report(TRUE, <<"a", ".", "I", "P", "A">>),
   Report(TRUE, <<"i", "p", "a">>)}

\* String.prototype.endsWith
EndsWith(s, p) == Len(s) >= Len(p) /\ SubSeq(s, Len(s) - Len(p) + 1, Len(s)) = p

\* server.ts:376-405
ApkFields ==
  {"hash", "app_name", "package_name", "version_name", "version_code", "min_sdk",
   "target_sdk", "permissions", "exported_activities", "main_activity", "activities",
   "services", "receivers", "providers", "libraries", "certificate_analysis",
   "manifest_analysis", "android_api", "code_analysis", "urls", "domains",
   "firebase_urls", "trackers", "network_security", "security_score", "average_cvss"}

\* server.ts:407-426
IosFields ==
  {"hash", "app_name", "bundle_id", "version", "build", "min_ios_version", "platform",
   "binary_archs", "entitlements", "url_schemes", "binary_analysis", "macho_analysis",
   "code_analysis", "file_analysis", "urls", "domains", "security_score", "average_cvss"}

\* every summary has the keys of the Android one
formatReportAndroid(report, scanType) == ApkFields

\* server.ts:374-428: the keys of the summary
formatReport(report, scanType) == IF scanType = "apk" THEN ApkFields ELSE IosFields

\* how an awaited upstream request can end: a 2xx response, a 2xx response
\* to the upload whose body has neither hash nor file_name, a response with
\* another status, or no response within the timeout of the request
StageOutcomes == {"ok", "malformed", "error", "timeout"}

\* a timeout is taken for an answer
AbortsUnlessTimeout(o) == o = "error"

\* server.ts:247, 265, 278: axios rejects, and the await throws, on a status
\* outside 2xx and on a timeout alike
Aborts(o) == o \in {"error", "timeout"}

\* server.ts:254, 271, 283: the timeout of the request of a stage
StageTimeout(stage) ==
  CASE stage = "submit" -> 300000 [] stage = "trigger" -> 600000 [] stage = "retrieve" -> 60000

\* server.ts:437-443: msg is the body of the response when the error has one,
\* and the message of the error otherwise; of a timeout that is
\* "timeout of <timeout>ms exceeded"
Message(cause, timeout) ==
  IF cause = "error" THEN [from |-> "response.data", timeout |-> 0]
  ELSE IF cause = "timeout" THEN [from |-> "message", timeout |-> timeout]
  ELSE [from |-> "message", timeout |-> 0]

\* what the filesystem can answer to unlinkSync of a file that exists
UnlinkAnswers == {"ok", "refused"}

\* fs.unlinkSync(tempPath), counted: <<files afterwards, answer>>
Unlink(fs, token, answer) ==
  IF token \notin fs THEN <<fs, "enoent">>
  ELSE IF answer = "ok" THEN <<fs \ {token}, "ok">>
  ELSE <<fs, "refused">>

\* the catch block without its cleanup
FailedNoCleanup(c, stage, o, u1) ==
  /\ calls' = [calls EXCEPT ![c].pc = "done", ![c].result = "error",
                            ![c].failedAt = stage, ![c].cause = o,
                            ![c].msg = Message(o, StageTimeout(stage))]
  /\ UNCHANGED files

\* server.ts:229-236: uploadAndScan rejected at `stage`; the file is removed if
\* it exists, and handleError turns the error into the result
Failed(c, stage, o, u1) ==
  LET t == calls[c].token
      r == Unlink(files, t, u1)
  IN  IF t \in files
      THEN /\ files' = r[1]
           /\ calls' = [calls EXCEPT ![c].pc = "done", ![c].result = "error",
                                     ![c].failedAt = stage, ![c].cause = o,
                                     ![c].msg = IF r[2] = "ok"
                                                THEN Message(o, StageTimeout(stage))
                                                ELSE Message("unlink", 0),
                                     ![c].unlinks = @ + 1, ![c].lastUnlink = r[2]]
      ELSE /\ UNCHANGED files
           /\ calls' = [calls EXCEPT ![c].pc = "done", ![c].result = "error",
                                     ![c].failedAt = stage, ![c].cause = o,
                                     ![c].msg = Message(o, StageTimeout(stage))]

\* server.ts:225-236: uploadAndScan resolved; unlinkSync runs inside the try,
\* so when it throws the catch block runs as well
Succeeded(c, report, u1, u2) ==
  LET t == calls[c].token
      r1 == Unlink(files, t, u1)
      r2 == Unlink(r1[1], t, u2)
  IN  IF r1[2] = "ok"
      THEN /\ files' = r1[1]
           /\ calls' = [calls EXCEPT ![c].pc = "done", ![c].result = "ok",
                                     ![c].projection = formatReport(report, calls[c].scanType),
                                     ![c].unlinks = @ + 1, ![c].lastUnlink = "ok"]
      ELSE IF t \in r1[1]
      THEN /\ files' = r2[1]
           /\ calls' = [calls EXCEPT ![c].pc = "done", ![c].result = "error",
                                     ![c].failedAt = "cleanup",
                                     ![c].msg = Message("unlink", 0),
                                     ![c].unlinks = @ + 2, ![c].lastUnlink = r2[2]]
      ELSE /\ files' = r1[1]
           /\ calls' = [calls EXCEPT ![c].pc = "done", ![c].result = "error",
                                     ![c].failedAt = "cleanup",
                                     ![c].msg = Message("unlink", 0),
                                     ![c].unlinks = @ + 1, ![c].lastUnlink = r1[2]]

\* a generator that returns the same value every time
SameTokenAgain == CHOOSE t \in Tokens : \A t2 \in Tokens : t <= t2

\* randomUUID never returns a value it returned before: the tokens are
\* numbered in the order they are drawn
FreshToken ==
  LET used == {calls[d].token : d \in 1 .. MaxCalls}
  IN  CHOOSE t \in Tokens \ used : \A t2 \in Tokens \ used : t <= t2

\* server.ts:204-225 and 244-255: classify, write the temporary file under a
\* fresh token, send the upload; the slots are taken in the order of the calls
Stage(c, name, token, wrote, partial) ==
  /\ calls[c].pc = "idle"
  /\ \A d \in 1 .. (c - 1) : calls[d].pc # "idle"
  /\ token = FreshToken
  /\ IF ScanTypeOf(name) = "null"
     THEN /\ calls' = [calls EXCEPT ![c] = [IdleCall EXCEPT !.pc = "done",
                                            !.filename = name, !.result = "error",
                                            !.failedAt = "type"]]
          /\ UNCHANGED files
     ELSE IF wrote
     THEN /\ calls' = [calls EXCEPT ![c] = [IdleCall EXCEPT !.pc = "submit",
                                            !.filename = name, !.token = token,
                                            !.tempPath = TempPath(token, name),
                                            !.scanType = ScanTypeOf(name),
                                            !.staged = TRUE]]
          /\ files' = files \cup {token}
     ELSE /\ calls' = [calls EXCEPT ![c] = [IdleCall EXCEPT !.pc = "done",
                                            !.filename = name, !.token = token,
                                            !.tempPath = TempPath(token, name),
                                            !.scanType = ScanTypeOf(name),
                                            !.result = "error", !.failedAt = "write"]]
          /\ files' = IF partial THEN files \cup {token} ELSE files

\* scanFileBase64 called on its own
StartScan(c, name, token, wrote, partial) ==
  /\ Stage(c, name, token, wrote, partial)
  /\ UNCHANGED <<apiKey, authVars, gwVars, sdVars, toolVars>>

\* server.ts:247-292: the awaited upstream request of the current stage ends
\* the inputs an ending request does not read are held at one value: the
\* report unless report_json answered, the answers of unlinkSync unless it
\* is called
StageSettle(c, o, report, u1, u2) ==
  /\ calls[c].pc \in {"submit", "trigger", "retrieve"}
  /\ o = "malformed" => calls[c].pc = "submit"
  /\ ~(o = "ok" /\ calls[c].pc = "retrieve") => report = Report(FALSE, <<>>)
  /\ ~(Aborts(o) \/ calls[c].pc = "retrieve") => u1 = "ok"
  /\ ~(o = "ok" /\ calls[c].pc = "retrieve" /\ u1 = "refused") => u2 = "ok"
  /\ IF Aborts(o) THEN Failed(c, calls[c].pc, o, u1)
     ELSE IF calls[c].pc = "submit"
     THEN calls' = [calls EXCEPT ![c].pc = "trigger"] /\ UNCHANGED files
     ELSE IF calls[c].pc = "trigger"
     THEN calls' = [calls EXCEPT ![c].pc = "retrieve"] /\ UNCHANGED files
     ELSE Succeeded(c, report, u1, u2)
  /\ UNCHANGED <<apiKey, authVars, gwVars, sdVars, toolVars>>

\* something other than the server removes a file from the upload directory
ExternalRemove(t) ==
  /\ t \in files
  /\ files' = files \ {t}
  /\ UNCHANGED <<apiKey, authVars, gwVars, sdVars, calls, toolVars>>

InitScan ==
  /\ apiKey = <<>>
  /\ authHdr = NoHeader
  /\ authOut = AuthIdle
  /\ authRejMsgs = {}
  /\ GwIdle
  /\ SdIdle
  /\ ScanIdle
  /\ ToolIdle

NextScan ==
  \/ \E c \in 1 .. MaxCalls, name \in Filenames, token \in Tokens,
        wrote \in BOOLEAN, partial \in BOOLEAN : StartScan(c, name, token, wrote, partial)
  \/ \E c \in 1 .. MaxCalls, o \in StageOutcomes, report \in Reports,
        u1 \in UnlinkAnswers, u2 \in UnlinkAnswers : StageSettle(c, o, report, u1, u2)
  \/ \E t \in Tokens : ExternalRemove(t)

SpecScan == InitScan /\ [][NextScan]_vars

\* ------------------------------------------------------------------------
\* Path translation (server.ts:109-153)
\* ------------------------------------------------------------------------
WorkspaceRoot == <<"/", "w", "o", "r", "k", "s", "p", "a", "c", "e">>
HostHomeMount == <<"/", "h", "o", "s", "t", "_", "h", "o", "m", "e">>
UploadsRoot == <<"/", "a", "p", "p", "/", "u", "p", "l", "o", "a", "d", "s">>
UsersPrefix == <<"/", "U", "s", "e", "r", "s", "/">>
HomePrefix == <<"/", "h", "o", "m", "e", "/">>

\* no path is taken for a container path
AlreadyTranslatedNever(inputPath) == FALSE

\* server.ts:111
AlreadyTranslated(inputPath) ==
  \/ StartsWith(inputPath, WorkspaceRoot)
  \/ StartsWith(inputPath, HostHomeMount)
  \/ StartsWith(inputPath, UploadsRoot)

\* server.ts:119: existsSync('/host_home') is evaluated only when HOST_HOME is
\* not set (an empty value counts as not set)
ProbesMount(hh, inputPath) == ~AlreadyTranslated(inputPath) /\ hh = <<>>

\* the length of the prefix /Users/ or /home/ of p, 0 when it has neither
HomePrefixLen(p) ==
  IF StartsWith(p, UsersPrefix) THEN Len(UsersPrefix)
  ELSE IF StartsWith(p, HomePrefix) THEN Len(HomePrefix)
  ELSE 0

\* only /Users/ is taken for a home directory
HomeMatchUsersOnly(p) ==
  StartsWith(p, UsersPrefix) /\ Len(p) > Len(UsersPrefix) /\ p[Len(UsersPrefix) + 1] # "/"

\* server.ts:139: ^(\/Users\/[^\/]+|\/home\/[^\/]+)(\/.*)?$ matches
HomeMatch(p) ==
  LET n == HomePrefixLen(p) IN n > 0 /\ Len(p) > n /\ p[n + 1] # "/"

\* server.ts:141: the second group of the match, '' when it took no part
HomeRest(p) ==
  LET n == HomePrefixLen(p)
      slashes == {i \in (n + 1) .. Len(p) : p[i] = "/"}
  IN  IF slashes = {} THEN <<>>
      ELSE SubSeq(p, CHOOSE i \in slashes : \A j \in slashes : i <= j, Len(p))

\* the HOST_HOME rule is tried before the container paths
TranslatePathMappingFirst(hh, mnt, inputPath) ==
  IF hh # <<>> /\ StartsWith(inputPath, hh)
  THEN HostHomeMount \o Slice(inputPath, Len(hh))
  ELSE IF AlreadyTranslated(inputPath) THEN inputPath
  ELSE IF ~(hh # <<>> \/ mnt) THEN inputPath
  ELSE IF HomeMatch(inputPath) THEN HostHomeMount \o HomeRest(inputPath)
  ELSE inputPath

\* server.ts:109-153 under HOST_HOME = hh and /host_home present iff mnt
TranslatePathWith(hh, mnt, inputPath) ==
  IF AlreadyTranslated(inputPath) THEN inputPath
  ELSE IF ~(hh # <<>> \/ mnt) THEN inputPath
  ELSE IF hh # <<>> /\ StartsWith(inputPath, hh)
  THEN HostHomeMount \o Slice(inputPath, Len(hh))
  ELSE IF HomeMatch(inputPath) THEN HostHomeMount \o HomeRest(inputPath)
  ELSE inputPath

translatePath(inputPath) == TranslatePathWith(hostHome, mounted, inputPath)

\* the paths callers name: /d/a.apk, /d/a.exe, /Users/u/a.ipa, /home/u.apk
\* and /workspace/a.apk
ArtifactPaths ==
  {<<"/", "d", "/", "a", ".", "a", "p", "k">>,
   <<"/", "d", "/", "a", ".", "e", "x", "e">>,
   UsersPrefix \o <<"u", "/", "a", ".", "i", "p", "a">>,
   HomePrefix \o <<"u", ".", "a", "p", "k">>,
   WorkspaceRoot \o <<"/", "a", ".", "a", "p", "k">>}

\* values of HOST_HOME: not set, and /Users/u
HostHomes == {<<>>, UsersPrefix \o <<"u">>}

\* the files that can exist: /d/a.apk and /host_home/a.ipa
DiskPaths ==
  {<<"/", "d", "/", "a", ".", "a", "p", "k">>,
   HostHomeMount \o <<"/", "a", ".", "i", "p", "a">>}

\* ------------------------------------------------------------------------
\* Tool schemas (server.ts:78-99)
\* ------------------------------------------------------------------------
\* JSON values of the arguments object; a key that is absent reads undefined
Undefined == [t |-> "undefined", s |-> <<>>, n |-> 0]
Str(s) == [t |-> "string", s |-> s, n |-> 0]
Num(n) == [t |-> "number", s |-> <<>>, n |-> n]

ArgKeys == {"file", "filename", "content", "hash", "page", "page_size", "pageSize"}

\* the object {}
NoArgs == [k \in ArgKeys |-> Undefined]

Field(t, optional) == [t |-> t, optional |-> optional]

ScanFilePathSchema == [file |-> Field("string", FALSE)]

ScanFileBase64Schema ==
  [filename |-> Field("string", FALSE), content |-> Field("string", FALSE),
   contentType |-> Field("string", TRUE)]

GetReportSchema == [hash |-> Field("string", FALSE)]

\* server.ts:92-95
ListScansSchema ==
  [page |-> Field("number", TRUE), page_size |-> Field("number", TRUE)]

DeleteScanSchema == [hash |-> Field("string", FALSE)]

\* the value the arguments hold under key k
ArgOf(args, k) == IF k \in DOMAIN args THEN args[k] ELSE Undefined

\* zod's safeParse of an object schema: the input must be an object, a key
\* must hold a value of its type unless it is optional and undefined; keys the
\* schema does not name are dropped from data
SafeParse(schema, hasArgs, args) ==
  LET success ==
        /\ hasArgs
        /\ \A k \in DOMAIN schema :
             IF ArgOf(args, k).t = "undefined" THEN schema[k].optional
             ELSE ArgOf(args, k).t = schema[k].t
  IN  [success |-> success,
       data |-> [k \in DOMAIN schema |-> IF success THEN ArgOf(args, k) ELSE Undefined]]

\* ------------------------------------------------------------------------
\* Upstream requests (server.ts:242-369)
\* ------------------------------------------------------------------------
FormKeys == {"file", "hash", "file_name", "page", "page_size"}
NoForm == [k \in FormKeys |-> <<>>]

\* the request is sent without a timeout (axios' default, 0)
UpReqNoTimeout(url, timeout, scanType, form) ==
  [url |-> url, timeout |-> 0, scan_type |-> scanType, form |-> form]

UpReq(url, timeout, scanType, form) ==
  [url |-> url, timeout |-> timeout, scan_type |-> scanType, form |-> form]

\* server.ts:247-255
UploadReq(filePath) ==
  UpReq("/api/v1/upload", 300000, "null", [NoForm EXCEPT !.file = filePath])

\* server.ts:261-272
ScanReq(hash, scanType, file_name) ==
  UpReq("/api/v1/scan", 600000, scanType,
        [NoForm EXCEPT !.hash = hash, !.file_name = file_name])

\* server.ts:275-284 and 299-308
ReportReq(hash) == UpReq("/api/v1/report_json", 60000, "null", [NoForm EXCEPT !.hash = hash])

\* server.ts:327-337
ScansReq(page, pageSize) ==
  UpReq("/api/v1/scans", 30000, "null",
        [NoForm EXCEPT !.page = NumberToString(page), !.page_size = NumberToString(pageSize)])

\* server.ts:352-361
DeleteReq(hash) == UpReq("/api/v1/delete_scan", 30000, "null", [NoForm EXCEPT !.hash = hash])

\* the hash upstream gives an upload
UpstreamHash == <<"h">>

\* String(undefined), what URLSearchParams.append makes of a missing member
UndefinedString == <<"u", "n", "d", "e", "f", "i", "n", "e", "d">>

Last(q) == q[Len(q)]

\* the kind is taken from the extension, in any letter case
ReportKindByExtension(report) ==
  IF report.hasName /\ ScanTypeOf(report.file_name) = "ios" THEN "ios" ELSE "apk"

\* server.ts:311
ReportKind(report) ==
  IF report.hasName /\ EndsWith(report.file_name, <<".", "i", "p", "a">>) THEN "ios" ELSE "apk"

\* ------------------------------------------------------------------------
\* The tool call handler and the operations (server.ts:167-198, 297-369, 495-569)
\* ------------------------------------------------------------------------
ToolNames == {"scanFile", "scanFileBase64", "getReport", "listScans", "deleteScan"}

\* names clients send: the five tools and one that is not registered
CallNames == ToolNames \cup {"scan"}

Content == <<"Q">>

\* a tools/call request; hasArgs is false when it has no arguments member
Call(name, hasArgs, args) == [name |-> name, hasArgs |-> hasArgs, args |-> args]

\* the calls clients send: each tool with arguments of its own, well formed
\* and not, with the empty object and without arguments; and a tool that is
\* not registered
ToolCalls ==
  {Call(n, FALSE, NoArgs) : n \in ToolNames}
    \cup {Call(n, TRUE, NoArgs) : n \in {"scanFile", "listScans", "deleteScan"}}
    \cup {Call("scanFile", TRUE, [NoArgs EXCEPT !.file = Str(p)]) : p \in ArtifactPaths}
    \cup {Call("scanFile", TRUE, [NoArgs EXCEPT !.file = Num(1)])}
    \cup {Call("scanFileBase64", TRUE,
                [NoArgs EXCEPT !.filename = Str(f), !.content = Str(Content)]) :
             f \in {<<"a", ".", "a", "p", "k">>, <<"a", ".", "e", "x", "e">>}}
    \cup {Call("scanFileBase64", TRUE,
                [NoArgs EXCEPT !.filename = Str(<<"a", ".", "a", "p", "k">>)])}
    \cup {Call(n, TRUE, [NoArgs EXCEPT !.hash = Str(UpstreamHash)]) :
             n \in {"getReport", "deleteScan", "scan"}}
    \cup {Call("getReport", TRUE, [NoArgs EXCEPT !.hash = Num(1)])}
    \cup {Call("listScans", TRUE, a) :
             a \in {[NoArgs EXCEPT !.page = Num(2)], [NoArgs EXCEPT !.page = Str(<<"2">>)],
                    [NoArgs EXCEPT !.page = Num(2), !.page_size = Num(20)],
                    [NoArgs EXCEPT !.page = Num(2), !.pageSize = Num(20)]}}

\* A log line is the sequence of its characters; the fixed text of a
\* template is one element of it.
\* server.ts:498-504: the value of a key in safeArgs, as JSON.stringify
\* writes it
SafeArg(k, v) ==
  IF k = "content" /\ v.t = "string"
  THEN <<"[BASE64_CONTENT:">> \o NumberToString(Len(v.s)) \o <<" chars]">>
  ELSE IF k = "file" /\ v.t = "string"
  THEN <<"[FILE_PATH:">> \o LastSegment(v.s) \o <<"]">>
  ELSE IF v.t = "string" THEN v.s
  ELSE IF v.t = "number" THEN NumberToString(v.n)
  ELSE <<>>

\* JSON.stringify(safeArgs), from the i-th key on
RECURSIVE StringifyFrom(_, _)
StringifyFrom(args, i) ==
  LET keys == <<"file", "filename", "content", "hash", "page", "page_size", "pageSize">>
  IN  IF i > Len(keys) THEN <<>>
      ELSE (IF args[keys[i]].t = "undefined" THEN <<>>
            ELSE <<keys[i], ":">> \o SafeArg(keys[i], args[keys[i]]) \o <<",">>)
             \o StringifyFrom(args, i + 1)

\* server.ts:505
ToolCallLine(name, hasArgs, args) ==
  <<"Tool call: ", name, " with args: ">>
    \o (IF hasArgs THEN StringifyFrom(args, 1) ELSE <<>>)

\* server.ts:133, 143, 149: the lines translatePath logs; the last is for a
\* path matching /^[A-Za-z]:/
TranslateLog(hh, mnt, inputPath) ==
  IF AlreadyTranslated(inputPath) THEN <<>>
  ELSE IF ~(hh # <<>> \/ mnt) THEN <<>>
  ELSE IF hh # <<>> /\ StartsWith(inputPath, hh)
  THEN << <<"Path translation: ">> \o inputPath \o <<" -> ">>
            \o TranslatePathWith(hh, mnt, inputPath) >>
  ELSE IF HomeMatch(inputPath)
  THEN << <<"Path translation (fallback): ">> \o inputPath \o <<" -> ">>
            \o TranslatePathWith(hh, mnt, inputPath) >>
  ELSE IF /\ Len(inputPath) >= 2
          /\ inputPath[1] \in SafeChars \ {"0", "1", "2", "3", "4", "5", "6", "7", "8",
                                             "9", ".", "_", "-"}
          /\ inputPath[2] = ":"
  THEN << <<"Warning: Windows paths not supported in Docker: ">> \o inputPath >>
  ELSE <<>>

\* the call as it reaches the handler (server.ts:496-505)
OpBase(sid, name, hasArgs, args) ==
  [IdleOp EXCEPT !.sid = sid, !.name = name, !.hasArgs = hasArgs, !.args = args,
                 !.logs = <<ToolCallLine(name, hasArgs, args)>>]

\* server.ts:510-515 and its four copies
InvalidInput(b) == [b EXCEPT !.pc = "done", !.isError = TRUE, !.kind = "Invalid input"]

\* server.ts:563-567
UnknownTool(b) == [b EXCEPT !.pc = "done", !.isError = TRUE, !.kind = "Unknown tool"]

\* the error leaves the operation instead of becoming its result
Rethrow(b, operation, fault) ==
  [b EXCEPT !.pc = "threw", !.operation = operation, !.fault = fault]

\* server.ts:433-450
handleError(b, operation, fault) ==
  [b EXCEPT !.pc = "done", !.isError = TRUE, !.kind = "failed",
            !.operation = operation, !.fault = fault,
            !.msg = Message(Last(b.answers), Last(b.sent).timeout),
            !.logs = Append(@, LET msg == Message(Last(b.answers), Last(b.sent).timeout)
                               IN  <<"MobSF ", operation, " error: ", msg.from>>
                                     \o (IF msg.timeout > 0 THEN NumberToString(msg.timeout)
                                         ELSE <<>>))]

\* the message names the path the caller gave and nothing else
NotFoundPathsRequestedOnly(filePath, containerPath) == <<filePath>>

\* server.ts:183-185: the paths the message of a missing file names
NotFoundPaths(filePath, containerPath) ==
  IF containerPath # filePath THEN <<filePath, containerPath>> ELSE <<filePath>>

\* server.ts:167-194, up to the first await
scanFilePath(b, filePath) ==
  LET containerPath == translatePath(filePath)
      mount == IF ProbesMount(hostHome, filePath) THEN {HostHomeMount} ELSE {}
      scanType == ScanTypeOf(containerPath)
      b1 == [b EXCEPT !.handler = "scanFilePath", !.resolved = containerPath,
                      !.probes = mount, !.scanType = scanType,
                      !.logs = @ \o TranslateLog(hostHome, mounted, filePath)]
  IN  IF scanType = "null"
      THEN [b1 EXCEPT !.pc = "done", !.isError = TRUE, !.kind = "Unsupported file type",
                      !.fault = "unsupported"]
      ELSE IF containerPath \notin disk
      THEN [b1 EXCEPT !.pc = "done", !.isError = TRUE, !.kind = "File not found",
                      !.fault = "missing", !.probes = mount \cup {containerPath},
                      !.paths = NotFoundPaths(filePath, containerPath)]
      ELSE [b1 EXCEPT !.pc = "submit", !.probes = mount \cup {containerPath},
                      !.logs = Append(@, <<"Uploading file from path: ">> \o containerPath
                                           \o <<" (original: ">> \o filePath \o <<")">>),
                      !.sent = <<UploadReq(containerPath)>>]

\* server.ts:297-308
getReport(b, hash) ==
  [b EXCEPT !.handler = "getReport", !.pc = "call", !.sent = <<ReportReq(hash)>>]

\* server.ts:325-337, with the defaults of its parameters
listScans(b, page, pageSize) ==
  [b EXCEPT !.handler = "listScans", !.pc = "call",
            !.sent = <<ScansReq(IF page.t = "undefined" THEN 1 ELSE page.n,
                                IF pageSize.t = "undefined" THEN 10 ELSE pageSize.n)>>]

\* server.ts:350-361
deleteScan(b, hash) ==
  [b EXCEPT !.handler = "deleteScan", !.pc = "call", !.sent = <<DeleteReq(hash)>>]

\* the schema of a tool
SchemaOf(name) ==
  CASE name = "scanFile" -> ScanFilePathSchema
    [] name = "scanFileBase64" -> ScanFileBase64Schema
    [] name = "getReport" -> GetReportSchema
    [] name = "listScans" -> ListScansSchema
    [] name = "deleteScan" -> DeleteScanSchema

\* safeParse accepts whatever it is given
ParseAnything(b) == [success |-> TRUE, data |-> [k \in ArgKeys |-> ArgOf(b.args, k)]]

\* server.ts:509, 520, 531, 542, 553
Parse(b) == SafeParse(SchemaOf(b.name), b.hasArgs, b.args)

\* server.ts:507-568: the switch, up to the first await of the operation; a
\* valid scanFileBase64 call is handed to scanFileBase64
CallTool(b) ==
  IF b.name \notin ToolNames THEN UnknownTool(b)
  ELSE LET parsed == Parse(b) IN
       IF ~parsed.success THEN InvalidInput(b)
       ELSE CASE b.name = "scanFile" -> scanFilePath(b, parsed.data.file.s)
              [] b.name = "scanFileBase64" ->
                   [b EXCEPT !.handler = "scanFileBase64", !.pc = "handed"]
              [] b.name = "getReport" -> getReport(b, parsed.data.hash.s)
              [] b.name = "listScans" ->
                   listScans(b, parsed.data.page, parsed.data.page_size)
              [] b.name = "deleteScan" -> deleteScan(b, parsed.data.hash.s)

\* the operation string each function gives handleError
OperationOf(handler) ==
  CASE handler = "scanFilePath" -> "scan file"
    [] handler = "getReport" -> "get report"
    [] handler = "listScans" -> "list scans"
    [] handler = "deleteScan" -> "delete scan"

\* the operation returns its result
Returned(b) == [b EXCEPT !.pc = "done", !.kind = "ok"]

\* the scan and the report are requested together
uploadAndScanFanOut(b, report) ==
  CASE b.pc = "submit" ->
         [b EXCEPT !.pc = "retrieve",
                   !.sent = @ \o <<ScanReq(UpstreamHash, b.scanType, LastSegment(b.resolved)),
                                   ReportReq(UpstreamHash)>>]
    [] b.pc = "trigger" ->
         [b EXCEPT !.pc = "retrieve", !.sent = Append(@, ReportReq(UpstreamHash))]
    [] b.pc = "retrieve" ->
         [b EXCEPT !.pc = "done", !.kind = "ok",
                   !.hasName = report.hasName, !.file_name = report.file_name,
                   !.projection = formatReport(report, b.scanType)]

\* server.ts:242-292 from one settled request to the next await or the return;
\* hash and file_name are read off the upload response (server.ts:257), logged
\* (server.ts:258) and sent on whatever they are
uploadAndScan(b, report) ==
  CASE b.pc = "submit" ->
         LET malformed == Last(b.answers) = "malformed"
             hash == IF malformed THEN UndefinedString ELSE UpstreamHash
             file_name == IF malformed THEN UndefinedString ELSE LastSegment(b.resolved)
         IN  [b EXCEPT !.pc = "trigger",
                       !.logs = Append(@, <<"Uploaded successfully. Hash: ">> \o hash
                                            \o <<", File: ">> \o file_name),
                       !.sent = Append(@, ScanReq(hash, b.scanType, file_name))]
    [] b.pc = "trigger" ->
         [b EXCEPT !.pc = "retrieve", !.sent = Append(@, ReportReq(b.sent[2].form.hash))]
    [] b.pc = "retrieve" ->
         [Returned(b) EXCEPT !.hasName = report.hasName, !.file_name = report.file_name,
                             !.projection = formatReport(report, b.scanType)]

\* server.ts:310-316, 339-341, 363-365
Answered(b, report) ==
  IF b.handler = "getReport"
  THEN [Returned(b) EXCEPT !.hasName = report.hasName, !.file_name = report.file_name,
                           !.scanType = ReportKind(report),
                           !.projection = formatReport(report, ReportKind(report))]
  ELSE Returned(b)

\* scanFilePath removes the file it uploaded when it is done with it
DiskAfterDisposal(b) == IF b.pc = "done" THEN disk \ {b.resolved} ELSE disk

\* server.ts:192-197: scanFilePath only reads the file; nothing is unlinked
DiskAfter(b) == disk

\* a tools/call request arrives on a registered session and the handler runs
\* to the first await of the operation
Dispatch(sid, name, hasArgs, args) ==
  /\ proc = "running"
  /\ sid \in DOMAIN transports
  /\ op.pc \in {"idle", "done", "handed"}
  /\ op.seq < MaxOps
  /\ LET b == CallTool(OpBase(sid, name, hasArgs, args))
     IN  b.pc # "handed" /\ op' = [b EXCEPT !.seq = op.seq + 1]
  /\ UNCHANGED <<apiKey, authVars, gwVars, sdVars, scanVars, hostHome, mounted, disk>>

\* server.ts:519-528: a scanFileBase64 call with valid arguments
DispatchInline(sid, hasArgs, args, c, token, wrote, partial) ==
  /\ proc = "running"
  /\ sid \in DOMAIN transports
  /\ op.pc \in {"idle", "done", "handed"}
  /\ calls[c].pc = "idle"
  /\ LET b == CallTool(OpBase(sid, "scanFileBase64", hasArgs, args))
         name == Parse(b).data.filename.s
     IN  /\ b.pc = "handed"
         /\ op' = IF ScanTypeOf(name) # "null" /\ wrote
                  THEN [b EXCEPT !.seq = op.seq,
                                 !.logs = Append(@, <<"Saved base64 file to: ">>
                                                      \o TempPath(token, name))]
                  ELSE [b EXCEPT !.seq = op.seq]
         /\ Stage(c, name, token, wrote, partial)
  /\ UNCHANGED <<apiKey, authVars, gwVars, sdVars, hostHome, mounted, disk>>

\* the awaited upstream request of the operation ends: as `o`, and with
\* `report` when it asked for one
OpSettle(o, report) ==
  /\ op.pc \in {"submit", "trigger", "retrieve", "call"}
  /\ o = "malformed" => op.pc = "submit"
  /\ ~(o = "ok" /\ (op.pc = "retrieve" \/ op.handler = "getReport")) =>
       report = Report(FALSE, <<>>)
  /\ LET b == [op EXCEPT !.answers = Append(@, o)]
     IN  op' = IF Aborts(o) THEN handleError(b, OperationOf(b.handler), b.pc)
               ELSE IF b.pc = "call" THEN Answered(b, report)
               ELSE uploadAndScan(b, report)
  /\ disk' = DiskAfter(op')
  /\ UNCHANGED <<apiKey, authVars, gwVars, sdVars, scanVars, hostHome, mounted>>

\* the request by which the one client opens its session
OpenSession == Req("POST", "/mcp", NoHeader, NoSid, TRUE)

InitTools ==
  /\ apiKey = <<>>
  /\ authHdr = NoHeader
  /\ authOut = AuthIdle
  /\ authRejMsgs = {}
  /\ GwIdle
  /\ SdIdle
  /\ ScanIdle
  /\ hostHome \in HostHomes
  /\ mounted \in BOOLEAN
  /\ disk \in {{}, DiskPaths}
  /\ op = IdleOp

NextTools ==
  \/ minted = {} /\ Request(OpenSession)
  \/ \E h \in DOMAIN tr : CreateHandle(h)
  \/ \E h \in DOMAIN tr : CreateReturn(h, FALSE)
  \/ \E sid \in Uuids, call \in ToolCalls :
       Dispatch(sid, call.name, call.hasArgs, call.args)
  \/ \E sid \in Uuids, call \in ToolCalls, token \in Tokens, wrote \in BOOLEAN,
        partial \in BOOLEAN :
       /\ call.name = "scanFileBase64"
       /\ DispatchInline(sid, call.hasArgs, call.args, 1, token, wrote, partial)
  \/ \E o \in StageOutcomes, report \in Reports : OpSettle(o, report)
  \/ \E c \in 1 .. MaxCalls, o \in StageOutcomes, report \in Reports,
        u1 \in UnlinkAnswers, u2 \in UnlinkAnswers : StageSettle(c, o, report, u1, u2)

SpecTools == InitTools /\ [][NextTools]_vars

\* an awaited request that has a timeout ends: upstream responds, or the
\* timeout fires; a request without one may stay unanswered for ever
TimedOpSettle ==
  /\ op.pc \in {"submit", "trigger", "retrieve", "call"}
  /\ Last(op.sent).timeout > 0
  /\ \E o \in StageOutcomes, report \in Reports : OpSettle(o, report)

TimedStageSettle(c) ==
  /\ calls[c].pc \in {"submit", "trigger", "retrieve"}
  /\ StageTimeout(calls[c].pc) > 0
  /\ \E o \in StageOutcomes, report \in Reports, u1 \in UnlinkAnswers, u2 \in UnlinkAnswers :
       StageSettle(c, o, report, u1, u2)

\* one well-formed call of each tool, on a host where the file exists
LiveCalls ==
  {Call("scanFile", TRUE, [NoArgs EXCEPT !.file = Str(<<"/", "d", "/", "a", ".", "a", "p", "k">>)]),
   Call("scanFileBase64", TRUE,
        [NoArgs EXCEPT !.filename = Str(<<"a", ".", "a", "p", "k">>), !.content = Str(Content)]),
   Call("getReport", TRUE, [NoArgs EXCEPT !.hash = Str(UpstreamHash)]),
   Call("listScans", TRUE, NoArgs),
   Call("deleteScan", TRUE, [NoArgs EXCEPT !.hash = Str(UpstreamHash)])}

InitLive ==
  /\ InitTools
  /\ hostHome = <<>>
  /\ ~mounted
  /\ disk = DiskPaths

NextLive ==
  \/ minted = {} /\ Request(OpenSession)
  \/ \E h \in DOMAIN tr : CreateHandle(h)
  \/ \E h \in DOMAIN tr : CreateReturn(h, FALSE)
  \/ \E sid \in Uuids, call \in LiveCalls :
       Dispatch(sid, call.name, call.hasArgs, call.args)
  \/ \E sid \in Uuids, call \in LiveCalls, token \in Tokens, wrote \in BOOLEAN,
        partial \in BOOLEAN :
       /\ call.name = "scanFileBase64"
       /\ DispatchInline(sid, call.hasArgs, call.args, 1, token, wrote, partial)
  \/ \E o \in StageOutcomes, report \in Reports : OpSettle(o, report)
  \/ \E c \in 1 .. MaxCalls, o \in StageOutcomes, report \in Reports,
        u1 \in UnlinkAnswers, u2 \in UnlinkAnswers : StageSettle(c, o, report, u1, u2)

SpecLive == InitLive /\ [][NextLive]_vars

FairSpecTools ==
  /\ SpecLive
  /\ WF_vars(TimedOpSettle)
  /\ \A c \in 1 .. MaxCalls : WF_vars(TimedStageSettle(c))

\* translatePath called on its own: HOST_HOME is not set, /Users/u or /host;
\* /host_home is mounted or not
InitPath ==
  /\ apiKey = <<>>
  /\ authHdr = NoHeader
  /\ authOut = AuthIdle
  /\ authRejMsgs = {}
  /\ GwIdle
  /\ SdIdle
  /\ ScanIdle
  /\ hostHome \in HostHomes \cup {<<"/", "h", "o", "s", "t">>}
  /\ mounted \in BOOLEAN
  /\ disk = {}
  /\ op = IdleOp

\* server.ts:109-153: translatePath(inputPath) returns; paths keeps the
\* results of the calls made so far
TranslateCall(inputPath) ==
  /\ op.pc = "idle"
  /\ op' = [IdleOp EXCEPT !.pc = "done", !.handler = "translatePath",
                          !.args = [NoArgs EXCEPT !.file = Str(inputPath)],
                          !.resolved = translatePath(inputPath),
                          !.probes = IF ProbesMount(hostHome, inputPath)
                                     THEN {HostHomeMount} ELSE {},
                          !.logs = TranslateLog(hostHome, mounted, inputPath),
                          !.paths = <<translatePath(inputPath)>>]
  /\ UNCHANGED <<apiKey, authVars, gwVars, sdVars, scanVars, hostHome, mounted, disk>>

\* translatePath is called on the path it returned
TranslateAgain ==
  /\ op.handler = "translatePath"
  /\ Len(op.paths) = 1
  /\ op' = [op EXCEPT !.paths = Append(@, translatePath(op.resolved)),
                      !.probes = @ \cup (IF ProbesMount(hostHome, op.resolved)
                                         THEN {HostHomeMount} ELSE {})]
  /\ UNCHANGED <<apiKey, authVars, gwVars, sdVars, scanVars, hostHome, mounted, disk>>

\* the paths callers name, and with them /host_home/a.ipa, /host/a.apk,
\* /Users/u.apk, /app/uploads/a.apk, /home/u/a.apk and /Users/u
NextPath ==
  \/ \E inputPath \in ArtifactPaths \cup
          {HostHomeMount \o <<"/", "a", ".", "i", "p", "a">>,
           <<"/", "h", "o", "s", "t", "/", "a", ".", "a", "p", "k">>,
           UsersPrefix \o <<"u", ".", "a", "p", "k">>,
           UploadsRoot \o <<"/", "a", ".", "a", "p", "k">>,
           HomePrefix \o <<"u", "/", "a", ".", "a", "p", "k">>,
           UsersPrefix \o <<"u">>} : TranslateCall(inputPath)
  \/ TranslateAgain

SpecPath == InitPath /\ [][NextPath]_vars

\* ------------------------------------------------------------------------
\* Properties
\* ------------------------------------------------------------------------
Done(c) == calls[c].pc = "done"

C2_UnauthenticatedRejectedFirst ==
  [][(apiKey # <<>> /\ last' # last /\ ~last'.cred)
       => /\ last'.out = "reject"
          /\ last'.code \in {-32001, -32002}
          /\ transports' = transports
          /\ tr' = tr
          /\ serverTransport' = serverTransport]_vars

\* a request without the key named a registered session and was rejected
C2_Witness ==
  /\ apiKey # <<>>
  /\ ~last.cred
  /\ last.known
  /\ last.sid \in DOMAIN transports
  /\ last.out = "reject"

\* C3, as stated: with key K configured, the header value K and the value
\* "Bearer " followed by K are accepted, every other header value is rejected,
\* and all rejections of header values carry one and the same message.
C3_ExactKeyAcceptedOthersRejectedAlike ==
  (apiKey # <<>> /\ authOut # AuthIdle) =>
    /\ PresentsValidCredential(apiKey, authHdr) => authOut.next
    /\ (authHdr # NoHeader /\ ~PresentsValidCredential(apiKey, authHdr)) => ~authOut.next
    /\ Cardinality(authRejMsgs) <= 1

\* the credential a header value carries: what follows the scheme "Bearer ",
\* or the whole value when the scheme is absent
PresentedCredential(hdr) ==
  IF Len(hdr) >= 7 /\ SubSeq(hdr, 1, 7) = Bearer THEN SubSeq(hdr, 8, Len(hdr)) ELSE hdr

\* the request carries no credential: no Authorization header, or an empty one
NoCredential(hdr) == hdr = NoHeader \/ hdr = <<>>

\* C4: with a key configured, a request without credential is rejected as
\* missing (401, -32001) and one whose credential differs from the key in
\* length or content as invalid (403, -32002); with no key configured every
\* request is let through.
C4_AuthOutcomes ==
  authOut # AuthIdle =>
    /\ apiKey = <<>> => authOut = AuthNext
    /\ (apiKey # <<>> /\ NoCredential(authHdr))
         => authOut = AuthReject(401, -32001, MsgMissing)
    /\ (apiKey # <<>> /\ ~NoCredential(authHdr) /\ PresentedCredential(authHdr) # apiKey)
         => authOut = AuthReject(403, -32002, MsgInvalid)

\* a Bearer credential of another length than the key was rejected as invalid
C4_Witness ==
  /\ apiKey # <<>>
  /\ StartsWith(authHdr, Bearer)
  /\ Len(PresentedCredential(authHdr)) # Len(apiKey)
  /\ authOut.code = -32002

\* the request passed the middleware
Authorised(ev) == apiKey = <<>> \/ ev.cred

\* C5: every registered identifier maps to the one transport constructed by
\* the request that minted it (no other transport was made for it, so it is
\* never bound to another), and a request carrying a registered identifier
\* goes to that transport.
C5_RegistryBindsMintingTransport ==
  /\ \A sid \in DOMAIN transports :
       LET h == transports[sid].t IN
       /\ h \in DOMAIN tr
       /\ tr[h].gen = sid
       /\ \A g \in DOMAIN tr : tr[g].gen = sid => g = h
  /\ (last.out # "none" /\ last.known /\ Authorised(last))
       => last.out = "forward" /\ tr[last.t].gen = last.sid
  /\ last.out = "forward" => last.known

\* two sessions are registered and a request went to the one constructed first
C5_Witness ==
  /\ Cardinality(DOMAIN transports) = 2
  /\ last.out = "forward"
  /\ last.t = 1
  /\ Len(tr) = 2

\* C6, as stated: a request carrying an identifier that is not registered
\* fails with code -32000 and the no-valid-session message whatever its
\* method, and leaves the registry as it was.
C6_UnknownSidSameError ==
  [][(last' # last /\ last'.sid # NoSid /\ ~last'.known /\ Authorised(last'))
       => /\ last'.out = "reject"
          /\ last'.code = -32000
          /\ last'.message = MsgNoSession
          /\ transports' = transports
          /\ tr' = tr]_vars

\* C7, as stated: a request that does not open a conversation and finds no
\* session is told to send an initialize request when its identifier is
\* unknown, and to supply an identifier when it carries none.
C7_ErrorFollowsSidState ==
  (last.out = "reject" /\ last.code = -32000) =>
    /\ last.sid # NoSid => last.message = MsgNoSession
    /\ last.sid = NoSid => last.message = MsgGetNeedsSession

\* C8, as stated: a request goes only to the transport of the session it
\* names, and a step that leaves session S2 registered (creating, closing or
\* failing another session) leaves S2's entry and the Server's connection to
\* S2's transport as they were.
C8_SessionsIsolated ==
  [][/\ (last' # last /\ last'.out = "forward") => tr[last'.t].gen = last'.sid
     /\ \A s2 \in (DOMAIN transports) \cap (DOMAIN transports') :
          /\ transports'[s2] = transports[s2]
          /\ serverTransport = transports[s2].t => serverTransport' = serverTransport]_vars

\* C9: the registry grows only by one entry at a time, while the transport of
\* an initialize POST that carried no identifier handles it; the entry's key is
\* the identifier minted for that transport, which randomUUID had not returned
\* before, the other entries stay, and no transport is made for a request that
\* carries an identifier.
C9_OnlyInitializeRegistersFreshId ==
  [][/\ (DOMAIN transports' \ DOMAIN transports # {}) =>
          \E sid \in DOMAIN transports' \ DOMAIN transports :
            LET h == transports'[sid].t IN
            /\ DOMAIN transports' = DOMAIN transports \cup {sid}
            /\ \A k \in DOMAIN transports : transports'[k] = transports[k]
            /\ h \in DOMAIN tr /\ tr[h].gen = sid /\ tr[h].init
            /\ tr[h].phase = "reading"
            /\ sid \in minted
            /\ \A k \in DOMAIN transports : transports[k].t # h
     /\ (Len(tr') # Len(tr)) =>
          /\ Len(tr') = Len(tr) + 1
          /\ tr'[Len(tr')].gen \notin minted
          /\ \A g \in DOMAIN tr : tr[g].gen # tr'[Len(tr')].gen
          /\ last'.out = "create" /\ last'.method = "POST" /\ last'.sid = NoSid
     /\ \A h \in DOMAIN tr :
          (tr[h].phase = "reading" /\ tr'[h].phase = "responding" /\ tr[h].init)
            => DOMAIN transports' = DOMAIN transports \cup {tr[h].gen}]_vars

\* a second session was registered beside the first
C9_Witness ==
  /\ Cardinality(DOMAIN transports) = 2
  /\ \A sid \in DOMAIN transports : tr[transports[sid].t].init
  /\ last.out = "create" /\ last.sid = NoSid

\* C10, as stated: once a termination signal has arrived the process exits.
C10_ExitsAfterSignal == (Len(runs) > 0) ~> (proc # "running")

\* the run r as it stood before a step that may have started it
RunBefore(r) == IF r \in DOMAIN runs THEN runs[r] ELSE NewRun

\* the step in which run r leaves its loop and clears the Map
LoopEnds(r) == runs'[r].pc = "done" /\ RunBefore(r).pc # "done"

C12_NoSessionAfterSignal ==
  [][/\ Len(runs) > 0 => DOMAIN transports' \subseteq DOMAIN transports
     /\ (\E r \in DOMAIN runs : runs[r].pc = "done") => transports' = <<>>
     /\ (listenerClosing' /\ ~listenerClosing) => transports' = <<>>
     /\ (proc' # "running" /\ proc = "running") => listenerClosing]_vars

\* the arguments satisfy the declared schema of the tool (server.ts:78-99)
Satisfies(name, hasArgs, args) ==
  /\ hasArgs
  /\ CASE name = "scanFile" -> args.file.t = "string"
       [] name = "scanFileBase64" -> args.filename.t = "string" /\ args.content.t = "string"
       [] name \in {"getReport", "deleteScan"} -> args.hash.t = "string"
       [] name = "listScans" -> /\ args.page.t \in {"number", "undefined"}
                               /\ args.page_size.t \in {"number", "undefined"}

Accepted(o) == o.name \in ToolNames /\ Satisfies(o.name, o.hasArgs, o.args)

\* the step hands a new call to the tool call handler
Dispatched == op' # op /\ op.pc \in {"idle", "done", "handed"}

\* C13: a call reaches an operation only when its name is one of the five
\* tools and its arguments satisfy that tool's schema, and then it reaches the
\* operation of that name; any other call returns a client error (unknown
\* tool, invalid input) with no path translated, no existence check, no
\* temporary file written and no upstream request sent.
C13_DispatchValidates ==
  [][Dispatched =>
       IF Accepted(op')
       THEN op'.handler = (IF op'.name = "scanFile" THEN "scanFilePath" ELSE op'.name)
       ELSE /\ op'.handler = "none"
            /\ op'.pc = "done" /\ op'.isError
            /\ op'.kind = (IF op'.name \in ToolNames THEN "Invalid input" ELSE "Unknown tool")
            /\ op'.resolved = <<>> /\ op'.probes = {} /\ op'.sent = <<>>
            /\ calls' = calls /\ files' = files]_vars

\* a scanFile call whose file argument is a number was refused
C13_Witness ==
  /\ op.name = "scanFile" /\ op.hasArgs /\ op.args.file.t = "number"
  /\ op.pc = "done" /\ op.kind = "Invalid input"
  /\ op.handler = "none" /\ op.resolved = <<>>

\* C14: whatever fails while an operation runs (the suffix, the file, the
\* write or removal of the temporary file, an upstream request at any stage,
\* by error or by timeout), the operation ends there with an error result and
\* never by throwing; the step leaves the registry and the process as they
\* were, and the session of the call is still registered.
C14_FailuresBecomeErrorResults ==
  [][(op' # op \/ calls' # calls) =>
       /\ op'.pc # "threw"
       /\ op'.fault # "none" => op'.pc = "done" /\ op'.isError
       /\ \A c \in 1 .. MaxCalls :
            calls'[c].failedAt # "none" => calls'[c].pc = "done" /\ calls'[c].result = "error"
       /\ transports' = transports
       /\ op'.sid \in DOMAIN transports'
       /\ proc' = "running"]_vars

\* a scanFile call failed at retrieve and returned an error; its session is
\* registered and the process runs
C14_Witness ==
  /\ op.handler = "scanFilePath" /\ op.fault = "retrieve"
  /\ op.pc = "done" /\ op.isError /\ op.kind = "failed"
  /\ op.sid \in DOMAIN transports
  /\ proc = "running"

\* the name ends neither in .apk nor in .ipa, in any letter case
Unsupported(name) ==
  /\ ~EndsWith(ToLowerCase(name), <<".", "a", "p", "k">>)
  /\ ~EndsWith(ToLowerCase(name), <<".", "i", "p", "a">>)

\* what C15 and its amendment share: a scanFile or scanFileBase64 call on a
\* name of unsupported suffix fails as unsupported, with no existence check of
\* the artifact, no temporary file written and no upstream request sent
UnsupportedRejected ==
  /\ (op.handler = "scanFilePath" /\ Unsupported(op.args.file.s)) =>
       /\ op.pc = "done" /\ op.isError /\ op.kind = "Unsupported file type"
       /\ op.resolved \notin op.probes
       /\ op.sent = <<>>
  /\ \A c \in 1 .. MaxCalls :
       (calls[c].pc # "idle" /\ Unsupported(calls[c].filename)) =>
         /\ calls[c].pc = "done" /\ calls[c].result = "error" /\ calls[c].failedAt = "type"
         /\ ~calls[c].staged /\ calls[c].token = 0

Names(paths, p) == \E i \in DOMAIN paths : paths[i] = p

C17_ScanFileKeepsCallerFile ==
  [][(op' # op /\ op'.handler = "scanFilePath") =>
       /\ disk' = disk
       /\ op'.sent # <<>> => op'.resolved \in disk']_vars

\* a scanFile call has returned its report and the file is still there
C17_Witness ==
  /\ op.handler = "scanFilePath" /\ op.pc = "done" /\ op.kind = "ok"
  /\ op.resolved \in disk

\* the first upstream request of the call carries these form fields
SendsPage(o, page, pageSize) ==
  /\ Len(o.sent) >= 1
  /\ o.sent[1].url = "/api/v1/scans"
  /\ o.sent[1].form.page = page
  /\ o.sent[1].form.page_size = pageSize

\* C18, as stated: a listScans call without arguments, be it with the empty
\* object or with no arguments member, is not refused as invalid input and
\* sends page "1" and page_size "10" upstream.
C18_ListScansDefaults ==
  (op.name = "listScans" /\ (~op.hasArgs \/ op.args = NoArgs)) =>
    /\ op.kind # "Invalid input"
    /\ SendsPage(op, <<"1">>, <<"1", "0">>)

\* C19, as stated: a listScans call with page P and pageSize N, the names the
\* README documents, sends page P and page_size N upstream.
C19_ListScansForwardsPagination ==
  (/\ op.name = "listScans" /\ op.hasArgs
   /\ op.args.page.t = "number" /\ op.args.pageSize.t = "number") =>
    SendsPage(op, NumberToString(op.args.page.n), NumberToString(op.args.pageSize.n))

\* the name has at least four characters and the last four are . i p a
EndsInIpa(name) ==
  /\ Len(name) >= 4
  /\ name[Len(name) - 3] = "." /\ name[Len(name) - 2] = "i"
  /\ name[Len(name) - 1] = "p" /\ name[Len(name)] = "a"

\* C20: a getReport call that received a report returns the iOS projection
\* when the report's file_name ends in .ipa, and the Android projection in
\* every other case, also when the report has no file_name.
C20_GetReportProjection ==
  (op.handler = "getReport" /\ op.pc = "done" /\ ~op.isError) =>
    op.projection = IF op.hasName /\ EndsInIpa(op.file_name) THEN IosFields ELSE ApkFields

\* a report without file_name was given the Android projection
C20_Witness ==
  /\ op.handler = "getReport" /\ op.pc = "done" /\ ~op.isError
  /\ ~op.hasName
  /\ op.projection = ApkFields

\* a normalised path is a direct child of a directory: it is the directory,
\* a separator, and one segment that is not empty, "." or ".."
DirectChild(dir, p) ==
  /\ StartsWith(p, dir \o <<"/">>)
  /\ LET seg == Slice(p, Len(dir) + 1)
     IN  /\ seg \notin {<<>>, <<".">>, <<".", ".">>}
         /\ \A i \in 1 .. Len(seg) : seg[i] # "/"

\* C23: whatever filename scanFileBase64 is given, separators, ".." segments
\* and characters outside [a-zA-Z0-9._-] included, the path it writes the
\* decoded content to is a direct child of the upload directory
C23_StagedPathInsideUploadDir ==
  \A c \in 1 .. MaxCalls :
    calls[c].tempPath # <<>> => DirectChild(UploadDir, calls[c].tempPath)

\* a file was staged for ../a.apk and another for "a .ipa/"
C23_Witness ==
  /\ \E c \in 1 .. MaxCalls :
       /\ calls[c].staged
       /\ StartsWith(calls[c].filename, <<".", ".", "/">>)
  /\ \E c \in 1 .. MaxCalls :
       /\ calls[c].staged
       /\ \E i \in 1 .. Len(calls[c].filename) : calls[c].filename[i] \notin SafeChars \cup {"/"}
\* C25: a scanFileBase64 call that wrote its temporary file has called
\* unlinkSync on it exactly once by the time it returns, whether the pipeline
\* succeeded or failed and whether or not the unlink itself failed
C25_UnlinkAttemptedExactlyOnce ==
  \A c \in 1 .. MaxCalls :
    calls[c].pc = "done" /\ calls[c].staged => calls[c].unlinks = 1

\* C30: when the temporary file is already gone at the time a successful
\* pipeline is cleaned up, the call still returns the pipeline's result
C30_MissingFileAtCleanupStillSucceeds ==
  \A c \in 1 .. MaxCalls :
    (/\ calls[c].pc = "done"
     /\ calls[c].staged
     /\ calls[c].failedAt \in {"none", "cleanup"}
     /\ calls[c].lastUnlink = "enoent") => calls[c].result = "ok"
Stages == {"submit", "trigger", "retrieve"}

\* the fields of the summary of a scan of the given kind
ProjectionOf(scanType) == IF scanType = "apk" THEN ApkFields ELSE IosFields

\* C21: a scan that succeeds returns the fields of the Android summary, and
\* none that only the iOS summary has, when the artifact is an .apk, and the
\* fields of the iOS summary when it is an .ipa; by path and inline alike
C21_ScanReturnsProjectionOfItsKind ==
  /\ (op.handler = "scanFilePath" /\ op.pc = "done" /\ ~op.isError) =>
       /\ op.scanType = ScanTypeOf(op.resolved)
       /\ op.scanType \in {"apk", "ios"}
       /\ op.projection = ProjectionOf(op.scanType)
       /\ op.scanType = "apk" => op.projection \cap (IosFields \ ApkFields) = {}
       /\ op.scanType = "ios" => op.projection \cap (ApkFields \ IosFields) = {}
  /\ \A c \in 1 .. MaxCalls :
       (calls[c].pc = "done" /\ calls[c].result = "ok") =>
         /\ calls[c].scanType = ScanTypeOf(calls[c].filename)
         /\ calls[c].scanType \in {"apk", "ios"}
         /\ calls[c].projection = ProjectionOf(calls[c].scanType)
         /\ calls[c].scanType = "apk" => calls[c].projection \cap (IosFields \ ApkFields) = {}

\* an .ipa scanned by path and an .apk scanned inline have both succeeded
C21_Witness ==
  /\ op.handler = "scanFilePath" /\ op.pc = "done" /\ ~op.isError /\ op.scanType = "ios"
  /\ calls[1].pc = "done" /\ calls[1].result = "ok" /\ calls[1].scanType = "apk"

PipelineUrls == <<"/api/v1/upload", "/api/v1/scan", "/api/v1/report_json">>

\* C26: in one run of uploadAndScan the requests go out in the order upload,
\* scan, report_json, each at most once, the scan only after the upload was
\* answered with success and the report only after the scan was, and never
\* more than one of them is unanswered
C26_StagesInOrderOneAtATime ==
  op.handler = "scanFilePath" =>
    /\ Len(op.sent) <= Len(PipelineUrls)
    /\ \A i \in 1 .. Len(op.sent) : op.sent[i].url = PipelineUrls[i]
    /\ Len(op.sent) - Len(op.answers) \in {0, 1}
    /\ \A i \in 2 .. Len(op.sent) : ~Aborts(op.answers[i - 1])
    /\ op.pc \in Stages => Len(op.sent) = Len(op.answers) + 1

\* the report is awaited: upload and scan were answered, three requests sent
C26_Witness ==
  /\ op.handler = "scanFilePath"
  /\ op.pc = "retrieve"
  /\ Len(op.sent) = 3
  /\ Len(op.answers) = 2

\* C27: a stage that ends in a timeout ends as one that ends in any other
\* failure of the request: no later request is sent, the temporary file of an
\* inline scan is removed (or its removal was refused), and the caller gets an
\* error result
C27_TimeoutFailsLikeAnyError ==
  /\ \A i \in 1 .. Len(op.answers) :
       op.answers[i] \in {"error", "timeout"} =>
         /\ i = Len(op.answers)
         /\ Len(op.sent) = i
         /\ op.pc = "done" /\ op.isError /\ op.kind = "failed"
  /\ \A c \in 1 .. MaxCalls :
       calls[c].cause \in {"error", "timeout"} =>
         /\ calls[c].pc = "done" /\ calls[c].result = "error"
         /\ calls[c].failedAt \in Stages
         /\ calls[c].token \in files => calls[c].lastUnlink = "refused"

\* a scan by path has timed out at the scan request and an inline scan at the
\* report request, its file removed
C27_Witness ==
  /\ op.handler = "scanFilePath" /\ op.fault = "trigger" /\ Last(op.answers) = "timeout"
  /\ calls[1].cause = "timeout" /\ calls[1].failedAt = "retrieve"
  /\ calls[1].lastUnlink = "ok" /\ calls[1].token \notin files

\* C28: an upload answered 2xx with a body that has no hash and no file name
\* ends the scan with an error at the upload; no scan request is sent
C28_MalformedUploadAborts ==
  (op.handler = "scanFilePath" /\ Len(op.answers) >= 1 /\ op.answers[1] = "malformed") =>
    /\ op.pc = "done" /\ op.isError /\ op.fault = "submit"
    /\ Len(op.sent) = 1

\* the text handleError returns for an inline scan
ErrorText(c) == [operation |-> "scan base64 file", msg |-> calls[c].msg]

\* C29: two scans that fail at different stages on the same upstream error
\* body return different errors
C29_FailingStageDistinguishable ==
  \A c \in 1 .. MaxCalls, d \in 1 .. MaxCalls :
    (/\ calls[c].pc = "done" /\ calls[d].pc = "done"
     /\ calls[c].cause = "error" /\ calls[d].cause = "error"
     /\ calls[c].lastUnlink = "ok" /\ calls[d].lastUnlink = "ok"
     /\ calls[c].failedAt # calls[d].failedAt) => ErrorText(c) # ErrorText(d)

\* String.prototype.includes
Contains(line, needle) ==
  \E i \in 1 .. (Len(line) - Len(needle) + 1) : SubSeq(line, i, i + Len(needle) - 1) = needle

\* C22: no log line of a tool call holds the content or the file path the
\* caller sent as it was sent
C22_LogsNeverHoldCallerPathOrContent ==
  \A i \in 1 .. Len(op.logs) :
    /\ op.args.file.t = "string" => ~Contains(op.logs[i], op.args.file.s)
    /\ op.args.content.t = "string" => ~Contains(op.logs[i], op.args.content.s)
InFlight(pc) == pc \in {"submit", "trigger", "retrieve", "call"}

\* C24: every upstream request is sent with a timeout, and so every scan,
\* getReport, listScans and deleteScan call that awaits one returns a result
C24_EveryCallReturns ==
  /\ [](\A i \in 1 .. Len(op.sent) : op.sent[i].timeout > 0)
  /\ InFlight(op.pc) ~> op.pc = "done"
  /\ \A c \in 1 .. MaxCalls : InFlight(calls[c].pc) ~> calls[c].pc = "done"

\* a listScans call has returned after its request timed out
C24_Witness ==
  /\ op.handler = "listScans"
  /\ op.pc = "done"
  /\ Len(op.answers) = 1 /\ op.answers[1] = "timeout"
  /\ op.msg.timeout = op.sent[1].timeout
\* the path translatePath was called with
Asked == op.args.file.s

\* the path begins with one of the container roots
LocalRoot(p) ==
  \E root \in {WorkspaceRoot, HostHomeMount, UploadsRoot} : StartsWith(p, root)

\* HOST_HOME is set and the path begins with it
UnderCallerRoot(p) == hostHome # <<>> /\ StartsWith(p, hostHome)

\* the rests of a path of the shape /Users/<name><rest> or /home/<name><rest>,
\* <rest> beginning with a separator: at most one
HomeShapeRests(p) ==
  {SubSeq(p, k, Len(p)) :
     k \in {k \in 1 .. Len(p) :
              /\ p[k] = "/"
              /\ \E pre \in {UsersPrefix, HomePrefix} :
                   /\ StartsWith(p, pre)
                   /\ k > Len(pre) + 1
                   /\ \A j \in (Len(pre) + 1) .. (k - 1) : p[j] # "/"}}

\* C33: translatePath reads nothing from the filesystem, and its result is
\* the same whatever the filesystem holds
C33_TranslateTouchesNoFile ==
  op.handler = "translatePath" =>
    /\ op.probes = {}
    /\ op.paths[1] = TranslatePathWith(hostHome, ~mounted, Asked)

\* C34: a path under a container root comes back unchanged even when it also
\* begins with HOST_HOME; otherwise a path that begins with HOST_HOME has that
\* prefix replaced by /host_home and the rest kept; a path no rule matches
\* comes back unchanged
C34_FirstMatchingRule ==
  op.handler = "translatePath" =>
    /\ LocalRoot(Asked) => op.paths[1] = Asked
    /\ (~LocalRoot(Asked) /\ UnderCallerRoot(Asked)) =>
         op.paths[1] = HostHomeMount \o SubSeq(Asked, Len(hostHome) + 1, Len(Asked))
    /\ (~LocalRoot(Asked) /\ ~UnderCallerRoot(Asked) /\ ~HomeMatch(Asked)) =>
         op.paths[1] = Asked

\* /host_home/a.ipa was asked for under HOST_HOME = /host and came back as it was
C34_Witness ==
  /\ op.handler = "translatePath"
  /\ LocalRoot(Asked) /\ UnderCallerRoot(Asked)
  /\ op.paths[1] = Asked

C39_TranslateKeepsSuffix ==
  op.handler = "translatePath" => ScanTypeOf(op.paths[1]) = ScanTypeOf(Asked)

\* C40: translatePath applied to a path it returned returns that path
C40_TranslateIdempotent ==
  (op.handler = "translatePath" /\ Len(op.paths) = 2) => op.paths[2] = op.paths[1]

\* a path that was rewritten has been translated a second time
C40_Witness ==
  /\ op.handler = "translatePath"
  /\ Len(op.paths) = 2
  /\ op.paths[1] # Asked

\* C38: for a stored scan whose file name has a supported suffix in any letter
\* case, getReport picks the kind under which the scan pipeline classified
\* and scanned a file of that name
C38_ReportKindIsScanKind ==
  (/\ op.handler = "getReport" /\ op.pc = "done" /\ ~op.isError
   /\ op.hasName
   /\ ScanTypeOf(op.file_name) \in {"apk", "ios"}) =>
    op.scanType = ScanTypeOf(op.file_name)

\* C32: two inline scans never have the same temporary path, also when their
\* file names are the same, and the cleanup of a scan removes no file but
\* the one that scan wrote
C32_ConcurrentScansKeepApart ==
  /\ [](\A c \in 1 .. MaxCalls, d \in 1 .. MaxCalls :
         (c # d /\ calls[c].tempPath # <<>> /\ calls[d].tempPath # <<>>) =>
           /\ calls[c].tempPath # calls[d].tempPath
           /\ calls[c].token # calls[d].token)
  /\ [][\A c \in 1 .. MaxCalls :
         calls'[c].unlinks # calls[c].unlinks =>
           (files \ files') \subseteq {calls[c].token}]_vars

\* two scans of a.apk were in flight together; the first has finished and
\* removed its file, the file of the second is still there
C32_Witness ==
  /\ calls[1].filename = calls[2].filename
  /\ calls[1].pc = "done" /\ calls[1].result = "ok" /\ calls[1].lastUnlink = "ok"
  /\ calls[1].token \notin files
  /\ calls[2].pc = "retrieve"
  /\ calls[2].token \in files

\* the transport is the value of an entry of the Map
Registered(h) == \E k \in DOMAIN transports : transports[k].t = h

\* C36: once mcpHandler has returned from the request that constructed a
\* transport, the transport is registered or closed, also when the request
\* was not an initialize request and when handleRequest threw
C36_ConstructedTransportRegisteredOrClosed ==
  \A h \in DOMAIN tr : tr[h].phase = "live" => (Registered(h) \/ tr[h].closed)

\* the run has called close() on the transport: the iterator of the run is at
\* or past the transport's entry
ClosedByRun(r, h) ==
  \E k \in DOMAIN transports : transports[k].t = h /\ transports[k].stamp <= runs[r].cur

\* C37: over all runs of shutdown, close() is called at most once on each
\* transport: no run calls it on a transport on which a run has called it
C37_CloseCalledAtMostOnce ==
  [][\A h \in DOMAIN tr :
       (runs' # runs /\ tr'[h].closes > tr[h].closes) =>
         \A r \in DOMAIN runs : ~ClosedByRun(r, h)]_vars

\* the session of this identifier was closed, or removed by the catch of the
\* request that opened it
Removed(sid) ==
  \E h \in DOMAIN tr : tr[h].gen = sid /\ (tr[h].closed \/ tr[h].dropped)

\* C31: the step in which a session's transport closes, or in which the
\* request that opened it fails, removes that session's entry from the Map and
\* no other; every request that later carries the identifier is answered with
\* the no-valid-session error
C31_RemovedSessionStaysInvalid ==
  /\ [][\A h \in DOMAIN tr :
         ((tr'[h].closed /\ ~tr[h].closed) \/ (tr'[h].dropped /\ ~tr[h].dropped)) =>
           transports' = MapDelete(transports, tr[h].gen)]_vars
  /\ [][(last' # last /\ Removed(last'.sid) /\ Authorised(last')) =>
         /\ last'.out = "reject"
         /\ last'.code = -32000
         /\ last'.message = MsgNoSession
         /\ transports' = transports]_vars
====
